---- MODULE Spec2Model ----
(***************************************************************************)
(* EchoScribe transcription backend (src/python/transcriber.py).           *)
(*                                                                         *)
(* One invocation of main() with --file/--mode is modelled as a sequential *)
(* process.  The messages printed on stdout are the sequence msgs; the     *)
(* external collaborators (FFmpeg child process, torch probe, the          *)
(* faster-whisper engine, the OpenAI client) are nondeterministic choices  *)
(* over the outcomes their call sites can observe.  Python exceptions are  *)
(* modelled by the variable exc: send_error raises SystemExit, which is    *)
(* not an Exception and so passes every "except Exception" handler.        *)
(***************************************************************************)
EXTENDS Integers, Sequences, FiniteSets, TLC

VARIABLES
    args,           \* the parsed command line and the facts about the input file
    pc,             \* position of the control thread in main()
    msgs,           \* JSON lines printed on stdout, in emission order
    exitCode,       \* process exit status; -1 while the process runs
    exc,            \* exception in flight through main's try/finally
    tempFile,       \* TRUE iff <tmp>/echoscribe_temp_audio.wav exists
    popenCalls,     \* number of subprocess.Popen calls (FFmpeg starts)
    device,         \* transcribe_local: local variable device
    compute_type,   \* transcribe_local: local variable compute_type
    attempts,       \* WhisperModel(...) constructor calls, in order
    total_duration, \* transcribe_local: local variable total_duration
    segment_count,  \* transcribe_local: local variable segment_count
    spans,          \* segment.end of every span the engine has yielded
    ret,            \* value returned by transcribe_local / transcribe_cloud
    fileOpened,     \* TRUE once open(audio_path, 'rb') has been called
    apiCalls        \* endpoints of the remote service called, in order

vars == <<args, pc, msgs, exitCode, exc, tempFile, popenCalls, device,
          compute_type, attempts, total_duration, segment_count, spans, ret,
          fileOpened, apiCalls>>

(***************************************************************************)
(* Bounds of the model.                                                    *)
(***************************************************************************)
MaxSpans == 3       \* the engine yields at most this many spans
MaxEnd == 2         \* span end times are drawn from 0..MaxEnd (seconds)
MaxDuration == 2    \* info.duration is drawn from 0..MaxDuration

(***************************************************************************)
(* Program constants.                                                      *)
(***************************************************************************)
AUDIO_FORMATS == {".mp3", ".wav", ".m4a", ".flac", ".ogg"}
VIDEO_FORMATS == {".mp4", ".mkv", ".mov", ".avi", ".webm"}
ALL_FORMATS == AUDIO_FORMATS \cup VIDEO_FORMATS

MAX_CLOUD_BYTES == 25 * 1024 * 1024

\* Extensions of the input paths the model draws from, as written on the
\* command line, and Path(...).suffix.lower() of each.
Suffixes == {".wav", ".MP4", ".mkv", ".txt"}

Lower(s) == IF s = ".MP4" THEN ".mp4" ELSE s

\* Sizes in bytes of the file handed to the remote path.
FileSizes == {MAX_CLOUD_BYTES, MAX_CLOUD_BYTES + 1, 28 * 1000 * 1000}

Args == [file         : BOOLEAN,       \* --file given
         exists       : BOOLEAN,       \* os.path.exists(args.file)
         suffix       : Suffixes,      \* Path(args.file).suffix
         mode         : {"none", "local", "cloud"},
         api_key      : BOOLEAN,       \* --api-key given and non-empty
         device_mode  : {"performance", "stable", "compatibility"},
         translate    : BOOLEAN,
         size         : FileSizes]     \* os.path.getsize(audio_path)

(***************************************************************************)
(* Protocol Encoder: the shape of the lines printed by send_*.             *)
(***************************************************************************)
Progress(p, stage) ==
    [type |-> "progress", progress |-> p, stage |-> stage, id |-> -1,
     message |-> ""]

Segment(i) ==
    [type |-> "segment", progress |-> -1, stage |-> "", id |-> i,
     message |-> ""]

Result(text) ==
    [type |-> "result", progress |-> -1, stage |-> "", id |-> -1,
     message |-> text]

Error(m) ==
    [type |-> "error", progress |-> -1, stage |-> "", id |-> -1,
     message |-> m]

\* sys.exit() without a status: send_error ends the process with status 0.
ExitStatus_NoStatus(e) == IF e = "Exception" THEN 1 ELSE 0

\* Exit status of the process for what leaves main(): nothing (status 0),
\* the SystemExit(1) of send_error (line 236), or any other exception
\* (traceback on stderr, status 1).
ExitStatus(e) ==
    CASE e = "none"       -> 0
      [] e = "SystemExit" -> 1
      [] OTHER            -> 1

\* "except:" in place of "except Exception": catches SystemExit as well.
ExceptExceptionCatches_Bare(e) == TRUE

\* Does an "except Exception" clause catch exception e?  SystemExit derives
\* from BaseException only.
ExceptExceptionCatches(e) == e # "SystemExit"

(***************************************************************************)
(* main(): validation of the request, lines 770-793.  The value is the    *)
(* message of the first failing check, or "none".                          *)
(***************************************************************************)
ValidationError_NoKeyCheck(a) ==
    IF ~a.file THEN "no_file"
    ELSE IF a.mode = "none" THEN "no_mode"
    ELSE IF ~a.exists THEN "file_missing"
    ELSE IF Lower(a.suffix) \notin ALL_FORMATS THEN "bad_format"
    ELSE "none"

\* The extension checked before the existence of the file.
ValidationError_FormatFirst(a) ==
    IF ~a.file THEN "no_file"
    ELSE IF a.mode = "none" THEN "no_mode"
    ELSE IF Lower(a.suffix) \notin ALL_FORMATS THEN "bad_format"
    ELSE IF ~a.exists THEN "file_missing"
    ELSE IF a.mode = "cloud" /\ ~a.api_key THEN "no_api_key"
    ELSE "none"

ValidationError(a) ==
    IF ~a.file THEN "no_file"
    ELSE IF a.mode = "none" THEN "no_mode"
    ELSE IF ~a.exists THEN "file_missing"
    ELSE IF Lower(a.suffix) \notin ALL_FORMATS THEN "bad_format"
    ELSE IF a.mode = "cloud" /\ ~a.api_key THEN "no_api_key"
    ELSE "none"

IsVideo(a) == Lower(a.suffix) \in VIDEO_FORMATS

Init ==
    /\ args \in Args
    /\ pc = "validate"
    /\ msgs = <<>>
    /\ exitCode = -1
    /\ exc = "none"
    /\ tempFile = FALSE
    /\ popenCalls = 0
    /\ device = "unset"
    /\ compute_type = "unset"
    /\ attempts = <<>>
    /\ total_duration = 0
    /\ segment_count = 0
    /\ spans = <<>>
    /\ ret = [len |-> 0, text |-> FALSE]
    /\ fileOpened = FALSE
    /\ apiCalls = <<>>

\* send_progress called without its stage argument, whose default is
\* 'transcribing'.
StartProgress_DefaultStage == Progress(0, "transcribing")

\* Line 795: send_progress(0, ..., 'extracting').
StartProgress == Progress(0, "extracting")

\* Validation failure: send_error prints and raises SystemExit outside any
\* try block, so the process ends at once.  Otherwise send_progress(0, ...)
\* and the choice between extraction and transcription (lines 795-808).
Validate ==
    /\ pc = "validate"
    /\ LET err == ValidationError(args) IN
       IF err # "none"
       THEN /\ msgs' = Append(msgs, Error(err))
            /\ exitCode' = ExitStatus("SystemExit")
            /\ pc' = "done"
       ELSE /\ msgs' = Append(msgs, StartProgress)
            /\ pc' = IF IsVideo(args) THEN "extract" ELSE "transcribe"
            /\ UNCHANGED exitCode
    /\ UNCHANGED <<args, exc, tempFile, popenCalls, device, compute_type,
                   attempts, total_duration, segment_count, spans, ret,
                   fileOpened, apiCalls>>

(***************************************************************************)
(* extract_audio(), called from main line 805 before the try/finally.      *)
(* Outcomes of Popen/communicate:                                          *)
(*   ok                 returncode 0, output file written                  *)
(*   nonzero_output     returncode # 0 after the output file was created   *)
(*   nonzero_no_output  returncode # 0, nothing written                    *)
(*   FileNotFoundError  Popen cannot find the executable                   *)
(*   Exception          any other exception of Popen/communicate           *)
(***************************************************************************)
FfmpegOutcomes ==
    {"ok", "nonzero_output", "nonzero_no_output", "FileNotFoundError",
     "Exception"}

\* Lines produced by the returncode # 0 branch and the handlers below it.
\* send_error raises SystemExit inside the try block.
ExtractFailureLines(notFoundText) ==
    LET first == IF notFoundText THEN Error("ffmpeg_missing")
                                 ELSE Error("extract_failed")
    IN  IF ExceptExceptionCatches("SystemExit")
        THEN <<first, Error("extract_failed")>>
        ELSE <<first>>

\* A main that goes on to the transcription whatever extract_audio returned.
AfterExtract_Ignored(extracted) == "transcribe"

\* Lines 805-808: main goes on to the transcription only when extract_audio
\* returned True; on a failure send_error has already ended the process.
AfterExtract(extracted) == IF extracted THEN "transcribe" ELSE "done"

ExtractAudio ==
    /\ pc = "extract"
    /\ popenCalls' = popenCalls + 1
    /\ \E out \in FfmpegOutcomes, notFoundText \in BOOLEAN :
         LET started == Append(msgs, Progress(5, "extracting")) IN
         /\ tempFile' = IF out \in {"ok", "nonzero_output"} THEN TRUE
                                                             ELSE tempFile
         /\ CASE out = "ok" ->
                   /\ msgs' = Append(started, Progress(25, "extracting"))
                   /\ pc' = AfterExtract(TRUE)
                   /\ UNCHANGED exitCode
              [] out \in {"nonzero_output", "nonzero_no_output"} ->
                   /\ msgs' = started \o ExtractFailureLines(notFoundText)
                   /\ exitCode' = ExitStatus("SystemExit")
                   /\ pc' = AfterExtract(FALSE)
              [] out = "FileNotFoundError" ->
                   /\ msgs' = Append(started, Error("ffmpeg_missing"))
                   /\ exitCode' = ExitStatus("SystemExit")
                   /\ pc' = AfterExtract(FALSE)
              [] out = "Exception" ->
                   /\ msgs' = Append(started, Error("extract_failed"))
                   /\ exitCode' = ExitStatus("SystemExit")
                   /\ pc' = AfterExtract(FALSE)
    /\ UNCHANGED <<args, exc, device, compute_type, attempts, total_duration,
                   segment_count, spans, ret, fileOpened, apiCalls>>

(***************************************************************************)
(* transcribe_local(), lines 494-648, called inside main's try/finally.    *)
(***************************************************************************)
Config(d, c) == [device |-> d, compute_type |-> c]

\* Lines 516-525: (device, compute_type) of the requested device mode.
DeviceFor(device_mode) ==
    CASE device_mode = "performance" -> Config("cuda", "float16")
      [] device_mode = "stable"      -> Config("cuda", "int8_float16")
      [] OTHER                       -> Config("cpu", "int8")

\* A last resort that goes back to the requested configuration.
LastResortConfig_Requested(device_mode) == DeviceFor(device_mode)

\* Lines 563-567: the constructor call made after the CPU retry failed.
LastResortConfig(device_mode) == Config("cpu", "int8")

\* Id counted from one.
SegmentId_FromOne(count) == count + 1

\* Line 599: 'id': segment_count.
SegmentId(count) == count

Min(a, b) == IF a < b THEN a ELSE b

\* Line 609 evaluates (segment.end / total_duration) * 55 in IEEE-754 double
\* precision and truncates the product with int().  For whole seconds
\* end and total in 0..14 the truncated product is floor(55 * end / total),
\* except for the pairs below: there the exact product is a whole number,
\* the quotient end / total is rounded below its exact value and the double
\* product stays just under that whole number (3.0 / 11.0 * 55 evaluates to
\* 14.999999999999998).
RoundedBelow == {<<3, 11>>, <<6, 11>>, <<12, 11>>}

\* int((end / total) * 55) for whole seconds end, total in 0..14, total > 0.
ScaledInt(end, total) ==
    ((end * 55) \div total) - (IF <<end, total>> \in RoundedBelow THEN 1 ELSE 0)

\* The percent without the cap of line 610.
SpanProgress_NoCap(end, total) == 40 + ScaledInt(end, total)

\* Lines 609-610: 40 + int((segment.end / total_duration) * 55), capped at 95.
SpanProgress(end, total) == Min(40 + ScaledInt(end, total), 95)

\* Line 592: info.duration if info.duration else 1.
TotalDuration(duration) == IF duration # 0 THEN duration ELSE 1

\* An exception or SystemExit raised inside main's try block: control goes
\* to the finally clause with the exception in flight.
RaiseInTry(e) ==
    /\ exc' = e
    /\ pc' = "finally"

\* Lines 508-525: import of the engine, first progress line, device choice.
LocalStart ==
    /\ pc = "transcribe"
    /\ args.mode = "local"
    /\ \E importOk \in BOOLEAN :
         IF importOk
         THEN /\ msgs' = Append(msgs, Progress(30, "transcribing"))
              /\ device' = DeviceFor(args.device_mode).device
              /\ compute_type' = DeviceFor(args.device_mode).compute_type
              /\ pc' = "probe"
              /\ UNCHANGED exc
         ELSE /\ msgs' = Append(msgs, Error("engine_missing"))
              /\ RaiseInTry("SystemExit")
              /\ UNCHANGED <<device, compute_type>>
    /\ UNCHANGED <<args, exitCode, tempFile, popenCalls, attempts,
                   total_duration, segment_count, spans, ret, fileOpened,
                   apiCalls>>

\* Lines 527-534: the accelerator probe.
TorchOutcomes == {"available", "unavailable", "ImportError"}

\* The probe announces the fallback but leaves the configuration as it was.
ProbedConfig_Unchanged(cfg, torch) == cfg

\* The probe moves to the CPU but keeps the precision of the GPU tier.
ProbedConfig_DeviceOnly(cfg, torch) ==
    IF cfg.device = "cuda" /\ torch = "unavailable"
    THEN Config("cpu", cfg.compute_type)
    ELSE cfg

\* Lines 529-531: the configuration after the probe.
ProbedConfig(cfg, torch) ==
    IF cfg.device = "cuda" /\ torch = "unavailable"
    THEN Config("cpu", "int8")
    ELSE cfg

Probe ==
    /\ pc = "probe"
    /\ \E torch \in TorchOutcomes :
         /\ device' = ProbedConfig(Config(device, compute_type), torch).device
         /\ compute_type' =
                ProbedConfig(Config(device, compute_type), torch).compute_type
         /\ msgs' = IF device = "cuda" /\ torch = "unavailable"
                    THEN Append(msgs, Progress(32, "transcribing"))
                    ELSE msgs
    /\ pc' = "init"
    /\ UNCHANGED <<args, exitCode, exc, tempFile, popenCalls, attempts,
                   total_duration, segment_count, spans, ret, fileOpened,
                   apiCalls>>

\* A fallback that steps to the next tier: performance falls back to stable.
FallbackConfig_NextTier(cfg) ==
    IF cfg = Config("cuda", "float16") THEN Config("cuda", "int8_float16")
                                       ELSE Config("cpu", "int8")

\* Lines 553-554: the configuration retried after a failure on cuda.
FallbackConfig(cfg) == Config("cpu", "int8")

\* Lines 536-554 and 568-569: the first constructor call and its handler.
InitModel ==
    /\ pc = "init"
    /\ attempts' = Append(attempts, Config(device, compute_type))
    /\ \E ok \in BOOLEAN :
         IF ok
         THEN /\ pc' = "start"
              /\ UNCHANGED <<device, compute_type, msgs, exc>>
         ELSE IF device = "cuda"
              THEN /\ msgs' = Append(msgs, Progress(35, "transcribing"))
                   /\ device' =
                         FallbackConfig(Config(device, compute_type)).device
                   /\ compute_type' =
                         FallbackConfig(Config(device, compute_type)).compute_type
                   /\ pc' = "init_cpu"
                   /\ UNCHANGED exc
              ELSE /\ RaiseInTry("Exception")
                   /\ UNCHANGED <<device, compute_type, msgs>>
    /\ UNCHANGED <<args, exitCode, tempFile, popenCalls, total_duration,
                   segment_count, spans, ret, fileOpened, apiCalls>>

\* Lines 556-561: the retry on the CPU inside the handler.
InitFallback ==
    /\ pc = "init_cpu"
    /\ attempts' = Append(attempts, Config(device, compute_type))
    /\ \E ok \in BOOLEAN : pc' = IF ok THEN "start" ELSE "init_last"
    /\ UNCHANGED <<args, msgs, exitCode, exc, tempFile, popenCalls, device,
                   compute_type, total_duration, segment_count, spans, ret,
                   fileOpened, apiCalls>>

\* Lines 562-567: the second retry; its exception leaves transcribe_local.
InitLastResort ==
    /\ pc = "init_last"
    /\ attempts' = Append(attempts, LastResortConfig(args.device_mode))
    /\ \E ok \in BOOLEAN :
         IF ok THEN pc' = "start" /\ UNCHANGED exc
               ELSE RaiseInTry("Exception")
    /\ UNCHANGED <<args, msgs, exitCode, tempFile, popenCalls, device,
                   compute_type, total_duration, segment_count, spans, ret,
                   fileOpened, apiCalls>>

\* Lines 571-595: progress 40, then model.transcribe(...), which may raise.
StartTranscribe ==
    /\ pc = "start"
    /\ msgs' = Append(msgs, Progress(40, "transcribing"))
    /\ \E ok \in BOOLEAN, duration \in 0..MaxDuration :
         IF ok
         THEN /\ total_duration' = TotalDuration(duration)
              /\ pc' = "stream"
              /\ UNCHANGED exc
         ELSE /\ RaiseInTry("Exception")
              /\ UNCHANGED total_duration
    /\ UNCHANGED <<args, exitCode, tempFile, popenCalls, device, compute_type,
                   attempts, segment_count, spans, ret, fileOpened, apiCalls>>

\* Lines 597-632: one iteration of the loop over segments_gen.
StreamSpan ==
    /\ pc = "stream"
    /\ segment_count < MaxSpans
    /\ \E end \in 0..MaxEnd :
         /\ msgs' = msgs \o <<Segment(SegmentId(segment_count)),
                              Progress(SpanProgress(end, total_duration),
                                       "transcribing")>>
         /\ spans' = Append(spans, end)
    /\ segment_count' = segment_count + 1
    /\ UNCHANGED <<args, pc, exitCode, exc, tempFile, popenCalls, device,
                   compute_type, attempts, total_duration, ret, fileOpened,
                   apiCalls>>

\* The generator raises while producing the next span.
StreamFail ==
    /\ pc = "stream"
    /\ RaiseInTry("Exception")
    /\ UNCHANGED <<args, msgs, exitCode, tempFile, popenCalls, device,
                   compute_type, attempts, total_duration, segment_count,
                   spans, ret, fileOpened, apiCalls>>

\* Lines 634-648: the generator is exhausted; return "", [], lang, metrics.
StreamEnd ==
    /\ pc = "stream"
    /\ ret' = [len |-> 4, text |-> FALSE]
    /\ pc' = "after"
    /\ UNCHANGED <<args, msgs, exitCode, exc, tempFile, popenCalls, device,
                   compute_type, attempts, total_duration, segment_count,
                   spans, fileOpened, apiCalls>>

(***************************************************************************)
(* transcribe_cloud(), lines 651-727, called inside main's try/finally.    *)
(***************************************************************************)
\* The size check never rejects.
SizeLimitExceeded_Never(size) == FALSE

\* Line 678: file_size > 25 * 1024 * 1024.
SizeLimitExceeded(size) == size > MAX_CLOUD_BYTES

\* Lines 715-725: the message chosen from str(e).
ApiErrorTexts == {"Invalid API key", "Rate limit", "insufficient_quota",
                  "other"}

ApiErrorMessage(text) ==
    CASE text = "Invalid API key"    -> "api_key_invalid"
      [] text = "Rate limit"         -> "rate_limited"
      [] text = "insufficient_quota" -> "quota"
      [] OTHER                       -> "api_error"

\* Lines printed when send_error(m) is called inside the try block of
\* transcribe_cloud: the SystemExit it raises meets "except Exception".
\* str(SystemExit(1)) is "1", so a handler that caught it would report the
\* generic API error.
ErrorInCloudTry(m) ==
    IF ExceptExceptionCatches("SystemExit")
    THEN <<Error(m), Error(ApiErrorMessage("1"))>>
    ELSE <<Error(m)>>

\* Lines 663-669: import of the client library and the first progress line.
CloudStart ==
    /\ pc = "transcribe"
    /\ args.mode = "cloud"
    /\ \E importOk \in BOOLEAN :
         IF importOk
         THEN /\ msgs' = Append(msgs, Progress(30, "transcribing"))
              /\ pc' = "cloud_client"
              /\ UNCHANGED exc
         ELSE /\ msgs' = Append(msgs, Error("openai_missing"))
              /\ RaiseInTry("SystemExit")
    /\ UNCHANGED <<args, exitCode, tempFile, popenCalls, device, compute_type,
                   attempts, total_duration, segment_count, spans, ret,
                   fileOpened, apiCalls>>

\* Lines 672-674: OpenAI(api_key=...); an exception goes to the handler of
\* line 715, whose send_error raises SystemExit.
CloudClient ==
    /\ pc = "cloud_client"
    /\ \E ok \in BOOLEAN, text \in ApiErrorTexts :
         IF ok
         THEN /\ msgs' = Append(msgs, Progress(40, "transcribing"))
              /\ pc' = "cloud_open"
              /\ UNCHANGED exc
         ELSE /\ msgs' = Append(msgs, Error(ApiErrorMessage(text)))
              /\ RaiseInTry("SystemExit")
    /\ UNCHANGED <<args, exitCode, tempFile, popenCalls, device, compute_type,
                   attempts, total_duration, segment_count, spans, ret,
                   fileOpened, apiCalls>>

\* Lines 676-692: open the file, check its size, progress 60.
CloudOpen ==
    /\ pc = "cloud_open"
    /\ \E ok \in BOOLEAN, text \in ApiErrorTexts :
         IF ~ok
         THEN /\ msgs' = Append(msgs, Error(ApiErrorMessage(text)))
              /\ RaiseInTry("SystemExit")
              /\ UNCHANGED fileOpened
         ELSE /\ fileOpened' = TRUE
              /\ IF SizeLimitExceeded(args.size)
                 THEN /\ msgs' = msgs \o ErrorInCloudTry("too_large")
                      /\ RaiseInTry("SystemExit")
                 ELSE /\ msgs' = Append(msgs, Progress(60, "transcribing"))
                      /\ pc' = "cloud_call"
                      /\ UNCHANGED exc
    /\ UNCHANGED <<args, exitCode, tempFile, popenCalls, device, compute_type,
                   attempts, total_duration, segment_count, spans, ret,
                   apiCalls>>

\* Lines 694-713: the single call of the service, the extraction of the
\* returned spans (seg.get raises when a span is not a mapping), progress 95
\* and the return of a 3-tuple (text, segments, detected_lang).
CloudCallOutcomes == {"ok", "call_raises", "spans_raise"}

Endpoint(translate) == IF translate THEN "translations" ELSE "transcriptions"

CloudCall ==
    /\ pc = "cloud_call"
    /\ apiCalls' = Append(apiCalls, Endpoint(args.translate))
    /\ \E out \in CloudCallOutcomes, text \in ApiErrorTexts,
          nonEmptyText \in BOOLEAN :
         IF out = "ok"
         THEN /\ msgs' = Append(msgs, Progress(95, "transcribing"))
              /\ ret' = [len |-> 3, text |-> nonEmptyText]
              /\ pc' = "after"
              /\ UNCHANGED exc
         ELSE /\ msgs' = Append(msgs, Error(ApiErrorMessage(text)))
              /\ RaiseInTry("SystemExit")
              /\ UNCHANGED ret
    /\ UNCHANGED <<args, exitCode, tempFile, popenCalls, device, compute_type,
                   attempts, total_duration, segment_count, spans, fileOpened>>

(***************************************************************************)
(* main(), lines 815-833: unpack the returned tuple into four names, then  *)
(* "if text:" progress 100 and the result.                                 *)
(***************************************************************************)
AfterTranscribe ==
    /\ pc = "after"
    /\ IF ret.len # 4
       THEN /\ RaiseInTry("Exception")      \* ValueError: not enough values
            /\ UNCHANGED msgs
       ELSE /\ msgs' = IF ret.text
                       THEN msgs \o <<Progress(100, "transcribing"),
                                      Result("text")>>
                       ELSE msgs
            /\ pc' = "finally"
            /\ UNCHANGED exc
    /\ UNCHANGED <<args, exitCode, tempFile, popenCalls, device, compute_type,
                   attempts, total_duration, segment_count, spans, ret,
                   fileOpened, apiCalls>>

\* main(), lines 835-845: the finally clause removes the temporary file of a
\* video input; then the process ends with the status of what is in flight.
Finally ==
    /\ pc = "finally"
    /\ tempFile' = IF IsVideo(args) THEN FALSE ELSE tempFile
    /\ exitCode' = ExitStatus(exc)
    /\ pc' = "done"
    /\ UNCHANGED <<args, msgs, exc, popenCalls, device, compute_type,
                   attempts, total_duration, segment_count, spans, ret,
                   fileOpened, apiCalls>>

Next ==
    \/ Validate
    \/ ExtractAudio
    \/ LocalStart
    \/ Probe
    \/ InitModel
    \/ InitFallback
    \/ InitLastResort
    \/ StartTranscribe
    \/ StreamSpan
    \/ StreamFail
    \/ StreamEnd
    \/ CloudStart
    \/ CloudClient
    \/ CloudOpen
    \/ CloudCall
    \/ AfterTranscribe
    \/ Finally

Spec == Init /\ [][Next]_vars

TypeOK ==
    /\ args \in Args
    /\ exitCode \in {-1, 0, 1}
    /\ exc \in {"none", "SystemExit", "Exception"}
    /\ tempFile \in BOOLEAN
    /\ segment_count \in 0..MaxSpans

(***************************************************************************)
(* Properties.                                                             *)
(***************************************************************************)
Terminal(m) == m.type \in {"result", "error"}

Last(s) == s[Len(s)]

HasType(t) == \E i \in DOMAIN msgs : msgs[i].type = t

OfType(t) == SelectSeq(msgs, LAMBDA m : m.type = t)

ValidRequest ==
    /\ args.file
    /\ args.exists
    /\ args.mode # "none"
    /\ Lower(args.suffix) \in ALL_FORMATS

\* No invocation ever prints progress 100 or a result: transcribe_local
\* returns the empty text, which "if text:" rejects, and transcribe_cloud
\* returns three values where main unpacks four.
NeverCompletes ==
    \A i \in DOMAIN msgs : msgs[i].type # "result" /\ msgs[i].progress # 100

\* C1: every transcription invocation run with a file and a mode has
\* emitted a terminal message (result or error) when the process has ended.
C1_TerminalBeforeExit ==
    (pc = "done" /\ args.file /\ args.mode # "none")
        => \E i \in DOMAIN msgs : Terminal(msgs[i])

\* C2: at most one terminal message is emitted, and an error message is
\* never followed by another message of any type.
C2_OneTerminalErrorLast ==
    /\ Cardinality({i \in DOMAIN msgs : Terminal(msgs[i])}) <= 1
    /\ \A i \in DOMAIN msgs : msgs[i].type = "error" => i = Len(msgs)

\* The size error is raised inside the try block of transcribe_cloud and the
\* process has gone through the cleanup of main's finally clause.
C2_Witness ==
    /\ pc = "done"
    /\ exc = "SystemExit"
    /\ IsVideo(args)
    /\ Len(msgs) > 1
    /\ Last(msgs) = Error("too_large")

\* C3: the percents of successive progress messages of a session never
\* decrease.
C3_ProgressNonDecreasing ==
    LET p == OfType("progress") IN
    \A i, j \in DOMAIN p : i < j => p[i].progress <= p[j].progress

\* C5: in a local session the segment messages carry the ids 0, 1, 2, ...
\* in emission order, one segment message per span yielded by the engine.
C5_SegmentIds ==
    LET segs == OfType("segment") IN
    /\ Len(segs) = Len(spans)
    /\ \A k \in DOMAIN segs : segs[k].id = k - 1

C5_Witness ==
    /\ pc = "done"
    /\ args.mode = "local"
    /\ Len(spans) >= 2
    /\ Len(OfType("segment")) >= 2

\* Position of a configuration in the order performance, stable,
\* compatibility.
TierRank(cfg) ==
    CASE cfg = Config("cuda", "float16")      -> 1
      [] cfg = Config("cuda", "int8_float16") -> 2
      [] cfg = Config("cpu", "int8")          -> 3
      [] OTHER                                -> 0

\* C6: the tiers of successive engine-initialisation attempts never move
\* backward in the order performance, stable, compatibility, and an attempt
\* on the CPU is never followed by an attempt on the GPU.
C6_TierForwardOnly ==
    \A i, j \in DOMAIN attempts :
        i < j => /\ TierRank(attempts[i]) <= TierRank(attempts[j])
                 /\ ~(attempts[i].device = "cpu" /\ attempts[j].device = "cuda")

\* All three constructor calls have been made, starting on the GPU.
C6_Witness ==
    /\ Len(attempts) = 3
    /\ attempts[1].device = "cuda"
    /\ attempts[3].device = "cpu"

\* C7: for a video input the temporary normalized-audio file is absent when
\* the process has exited.
C7_TempFileAbsentAtExit ==
    (pc = "done" /\ IsVideo(args)) => ~tempFile

\* C8: in remote mode with an audio file larger than 25 MiB no endpoint of
\* the remote service is ever called and the session ends with an error
\* message and exit status 1.
C8_OversizeRejected ==
    (args.mode = "cloud" /\ args.size > 25 * 1024 * 1024)
        => /\ apiCalls = <<>>
           /\ pc = "done" => /\ exitCode = 1
                             /\ msgs # <<>>
                             /\ Last(msgs).type = "error"

\* The size check itself has rejected the file.
C8_Witness ==
    /\ pc = "done"
    /\ args.mode = "cloud"
    /\ args.size > 25 * 1024 * 1024
    /\ fileOpened
    /\ Last(msgs) = Error("too_large")
    /\ exitCode = 1

\* C9: in remote mode without a credential, for an existing file with a
\* supported extension, the only message is one error; no progress message
\* precedes it, the transcoding tool is not started, no temporary file is
\* created and the input file is not opened.
C9_NoCredentialFirst ==
    (ValidRequest /\ args.mode = "cloud" /\ ~args.api_key)
        => /\ Len(msgs) <= 1
           /\ \A i \in DOMAIN msgs : msgs[i].type = "error"
           /\ popenCalls = 0
           /\ ~tempFile
           /\ ~fileOpened
           /\ apiCalls = <<>>
           /\ pc = "done" => Len(msgs) = 1

C9_Witness ==
    /\ pc = "done"
    /\ ValidRequest
    /\ args.mode = "cloud"
    /\ ~args.api_key
    /\ msgs = <<Error("no_api_key")>>

\* C10: an invocation that has emitted an error exits with status 1 and one
\* that has emitted a result exits with status 0.
C10_ExitStatus ==
    pc = "done" => /\ HasType("error") => exitCode = 1
                   /\ HasType("result") => exitCode = 0
                   /\ exitCode = 0 => ~HasType("error")

\* An error raised inside main's try block, after the finally clause.
C10_Witness ==
    /\ pc = "done"
    /\ exc = "SystemExit"
    /\ HasType("error")
    /\ exitCode = 1

(***************************************************************************)
(* Two invocations on video inputs, started by the host as separate        *)
(* processes.  Both compute the same path for the temporary file, lines    *)
(* 802-803: os.path.join(tempfile.gettempdir(), 'echoscribe_temp_audio.wav'),*)
(* and FFmpeg is run with -y (line 421), so it overwrites that path.       *)
(* In this specification the per-process variables are functions of the    *)
(* instance, and tempFile is 0 when the file is absent and otherwise the   *)
(* instance whose extracted audio the file holds; spans[i] records whose   *)
(* audio instance i read when it opened audio_path.                        *)
(***************************************************************************)
Inst == {1, 2}

ConcArgs ==
    {a \in Args : /\ a.file /\ a.exists /\ IsVideo(a)
                  /\ a.mode # "none" /\ a.api_key
                  /\ a.device_mode = "compatibility" /\ ~a.translate
                  /\ a.size = MAX_CLOUD_BYTES}

ConcInit ==
    /\ args \in [Inst -> ConcArgs]
    /\ pc = [i \in Inst |-> "extract"]
    /\ msgs = <<>>
    /\ exitCode = [i \in Inst |-> -1]
    /\ exc = [i \in Inst |-> "none"]
    /\ tempFile = 0
    /\ popenCalls = 0
    /\ device = "unset"
    /\ compute_type = "unset"
    /\ attempts = <<>>
    /\ total_duration = 0
    /\ segment_count = [i \in Inst |-> 0]
    /\ spans = [i \in Inst |-> <<>>]
    /\ ret = [len |-> 0, text |-> FALSE]
    /\ fileOpened = FALSE
    /\ apiCalls = <<>>

ConcFrame ==
    UNCHANGED <<args, msgs, device, compute_type, attempts, total_duration,
                ret, fileOpened, apiCalls>>

\* main lines 801-808 with extract_audio: FFmpeg writes its output to the
\* shared path; a failure ends the process before the try/finally.
ConcExtract(i) ==
    /\ pc[i] = "extract"
    /\ popenCalls' = popenCalls + 1
    /\ \E out \in FfmpegOutcomes :
         /\ tempFile' = IF out \in {"ok", "nonzero_output"} THEN i
                                                             ELSE tempFile
         /\ IF out = "ok"
            THEN /\ pc' = [pc EXCEPT ![i] = "transcribe"]
                 /\ UNCHANGED exitCode
            ELSE /\ pc' = [pc EXCEPT ![i] = "done"]
                 /\ exitCode' = [exitCode EXCEPT ![i] = ExitStatus("SystemExit")]
    /\ UNCHANGED <<exc, segment_count, spans>>
    /\ ConcFrame

\* audio_path is opened by the engine (model.transcribe, line 589) or by
\* open(audio_path, 'rb') (line 676).  A missing file raises inside main's
\* try block: an exception in local mode, an error message and SystemExit
\* in remote mode.
ConcOpen(i) ==
    /\ pc[i] = "transcribe"
    /\ IF tempFile = 0
       THEN /\ exc' = [exc EXCEPT ![i] = IF args[i].mode = "local"
                                         THEN "Exception" ELSE "SystemExit"]
            /\ pc' = [pc EXCEPT ![i] = "finally"]
            /\ UNCHANGED spans
       ELSE /\ spans' = [spans EXCEPT ![i] = Append(@, tempFile)]
            /\ pc' = [pc EXCEPT ![i] = "stream"]
            /\ UNCHANGED exc
    /\ UNCHANGED <<exitCode, tempFile, popenCalls, segment_count>>
    /\ ConcFrame

\* One more span is produced (local loop, lines 597-632) while the
\* transcription of instance i is under way.
ConcStream(i) ==
    /\ pc[i] = "stream"
    /\ segment_count[i] < MaxSpans
    /\ segment_count' = [segment_count EXCEPT ![i] = @ + 1]
    /\ UNCHANGED <<pc, exitCode, exc, tempFile, popenCalls, spans>>
    /\ ConcFrame

\* The transcription of instance i ends and control reaches the finally
\* clause.
ConcEnd(i) ==
    /\ pc[i] = "stream"
    /\ pc' = [pc EXCEPT ![i] = "finally"]
    /\ UNCHANGED <<exitCode, exc, tempFile, popenCalls, segment_count, spans>>
    /\ ConcFrame

\* Lines 835-841: remove the shared path if it exists, whoever wrote it.
ConcFinally(i) ==
    /\ pc[i] = "finally"
    /\ tempFile' = 0
    /\ exitCode' = [exitCode EXCEPT ![i] = ExitStatus(exc[i])]
    /\ pc' = [pc EXCEPT ![i] = "done"]
    /\ UNCHANGED <<exc, popenCalls, segment_count, spans>>
    /\ ConcFrame

ConcNext ==
    \E i \in Inst :
        \/ ConcExtract(i)
        \/ ConcOpen(i)
        \/ ConcStream(i)
        \/ ConcEnd(i)
        \/ ConcFinally(i)

ConcSpec == ConcInit /\ [][ConcNext]_vars

\* C11: from the end of an instance's extraction until the end of its
\* transcription, the temporary file is present and holds that instance's
\* own extracted audio, and the audio it opened was its own.
C11_TempFileIsolated ==
    \A i \in Inst :
        /\ pc[i] \in {"transcribe", "stream"} => tempFile = i
        /\ \A k \in DOMAIN spans[i] : spans[i][k] = i

HasProgress(p) ==
    \E i \in DOMAIN msgs : msgs[i].type = "progress" /\ msgs[i].progress = p

\* The exception in flight left transcribe_local from a constructor call on
\* (cpu, int8): progress 40 of line 571 was never reached.
InitFailedAtCompatibility ==
    /\ args.mode = "local"
    /\ exc = "Exception"
    /\ attempts # <<>>
    /\ Last(attempts) = Config("cpu", "int8")
    /\ ~HasProgress(40)

\* C12: a local session whose engine initialisation failed at the
\* compatibility tier has emitted exactly one error message when it ends,
\* and exits nonzero.
C12_DeviceErrorReported ==
    (pc = "done" /\ InitFailedAtCompatibility)
        => /\ Len(OfType("error")) = 1
           /\ exitCode # 0

\* C13: a session in which a collaborator raised a failure has emitted an
\* error message when the process has ended.
C13_NoSilentFailure ==
    (pc = "done" /\ exc = "Exception") => HasType("error")

\* C14: a local session whose span sequence was exhausted without failure
\* ends with a result message with empty text as its last message.
C14_LocalResult ==
    (pc = "done" /\ args.mode = "local" /\ ret.len = 4)
        => /\ msgs # <<>>
           /\ Last(msgs) = Result("")

\* C15: a remote session whose service call returned successfully ends with
\* a result message, no error message and exit status 0.
C15_RemoteResult ==
    (pc = "done" /\ args.mode = "cloud" /\ ret.len = 3)
        => /\ msgs # <<>>
           /\ Last(msgs).type = "result"
           /\ ~HasType("error")
           /\ exitCode = 0

\* C16: no (accelerator, precision) configuration is attempted a second time
\* in a local session.
C16_NoConfigurationTwice ==
    \A i, j \in DOMAIN attempts : i < j => attempts[i] # attempts[j]

\* C16 (amended): a session makes at most three attempts; the only
\* configuration ever attempted twice is (cpu, int8), as the second and third
\* attempts of a session whose first attempt was on the GPU; no GPU
\* configuration is attempted a second time.
C16_OnlyCpuRetriedOnce ==
    /\ Len(attempts) <= 3
    /\ \A i, j \in DOMAIN attempts :
         (i < j /\ attempts[i] = attempts[j])
            => /\ attempts[i] = Config("cpu", "int8")
               /\ i = 2
               /\ j = 3
               /\ attempts[1].device = "cuda"

\* The CPU retry and the last resort have both been made.
C16_Witness ==
    /\ Len(attempts) = 3
    /\ attempts[2] = attempts[3]
    /\ attempts[2] = Config("cpu", "int8")

\* C17: after a failure or a probe reporting unavailability at a GPU tier,
\* the next attempt is at the immediately following tier: stable after
\* performance, compatibility after stable.
C17_NextTierAfterFailure ==
    /\ \A i \in DOMAIN attempts :
         (i < Len(attempts) /\ attempts[i].device = "cuda")
            => TierRank(attempts[i + 1]) = TierRank(attempts[i]) + 1
    /\ (HasProgress(32) /\ attempts # <<>>)
            => TierRank(attempts[1]) =
                  TierRank(DeviceFor(args.device_mode)) + 1

\* C17 (amended): after a failure or a probe reporting unavailability at a
\* GPU tier, performance or stable, the next attempt is at the compatibility
\* tier (cpu, int8); stable is attempted only as the entry tier.
C17_CompatibilityAfterFailure ==
    /\ \A i \in DOMAIN attempts :
         (i < Len(attempts) /\ attempts[i].device = "cuda")
            => attempts[i + 1] = Config("cpu", "int8")
    /\ (HasProgress(32) /\ attempts # <<>>)
            => attempts[1] = Config("cpu", "int8")
    /\ \A i \in DOMAIN attempts :
         attempts[i] = Config("cuda", "int8_float16")
            => i = 1 /\ args.device_mode = "stable"

\* An initialisation at performance has failed and has been retried.
C17_Witness ==
    /\ Len(attempts) >= 2
    /\ attempts[1] = Config("cuda", "float16")
    /\ attempts[2] = Config("cpu", "int8")
    /\ HasProgress(35)

\* C18: the percents of successive progress messages strictly increase.
C18_ProgressStrictlyIncreasing ==
    LET p == OfType("progress") IN
    \A i \in DOMAIN p : i < Len(p) => p[i].progress < p[i + 1].progress

\* C19: no progress message with stage extracting follows a progress
\* message with stage transcribing.
C19_StageChangesOnce ==
    LET p == OfType("progress") IN
    \A i, j \in DOMAIN p :
        (i < j /\ p[i].stage = "transcribing") => p[j].stage # "extracting"

\* A video input whose extraction succeeded and whose transcription began.
C19_Witness ==
    /\ pc = "done"
    /\ IsVideo(args)
    /\ HasProgress(25)
    /\ HasProgress(40)
    /\ \E i \in DOMAIN msgs : msgs[i].stage = "transcribing"

\* Progress lines announcing a fallback: line 532 (32) and line 552 (35).
FallbackAnnouncements ==
    SelectSeq(msgs, LAMBDA m : m.type = "progress" /\ m.progress \in {32, 35})

\* The session entered at a GPU tier and found the GPU unusable, by the
\* probe or by a failed constructor call on cuda.
GpuFoundUnavailable ==
    /\ args.mode = "local"
    /\ args.device_mode # "compatibility"
    /\ \/ HasProgress(32)
       \/ Len(attempts) >= 2 /\ attempts[1].device = "cuda"

\* C20: a local session entering at a GPU tier never announces a fallback
\* twice; when the GPU was found unavailable and the engine was initialised,
\* exactly one announcement was made and the engine in use was constructed
\* on (cpu, int8).
C20_OneFallbackAnnouncement ==
    /\ Len(FallbackAnnouncements) <= 1
    /\ (GpuFoundUnavailable /\ HasProgress(40))
          => /\ Len(FallbackAnnouncements) = 1
             /\ Last(attempts) = Config("cpu", "int8")

\* The probe reported the GPU unavailable and transcription ran on the CPU.
C20_Witness ==
    /\ pc = "done"
    /\ args.device_mode = "performance"
    /\ HasProgress(32)
    /\ HasProgress(40)
    /\ Len(spans) > 0
    /\ attempts = <<Config("cpu", "int8")>>

\* A progress message of the streaming loop: the line that directly follows
\* a segment line (lines 605 and 626).
IsSpanProgress(k) ==
    /\ msgs[k].type = "progress"
    /\ k > 1
    /\ msgs[k - 1].type = "segment"

\* C18 (amended): every progress message outside the streaming loop carries
\* a percent greater than that of every earlier progress message, and every
\* per-span progress message carries a percent from 40, the percent sent
\* before the loop, to 95; per-span percents may repeat.
C18_StrictOutsideLoop ==
    \A k \in DOMAIN msgs :
        msgs[k].type = "progress"
           => IF IsSpanProgress(k)
              THEN msgs[k].progress >= 40 /\ msgs[k].progress <= 95
              ELSE \A j \in 1..(k - 1) :
                      msgs[j].type = "progress"
                         => msgs[j].progress < msgs[k].progress

\* A video session whose streaming loop sent the same percent twice.
C18_Witness ==
    /\ pc = "done"
    /\ HasProgress(25)
    /\ \E k \in DOMAIN msgs :
         /\ IsSpanProgress(k)
         /\ k > 2
         /\ IsSpanProgress(k - 2)
         /\ msgs[k].progress = msgs[k - 2].progress

\* The three fixed (accelerator, precision) pairs of the tiers.
TierConfigs ==
    {Config("cuda", "float16"), Config("cuda", "int8_float16"),
     Config("cpu", "int8")}

LoopMaxSpans == 2       \* spans yielded in the loop
LoopMaxEnd == 6         \* span ends are drawn from 0..LoopMaxEnd (seconds)
LoopMaxDuration == 11   \* info.duration is drawn from 0..LoopMaxDuration

LoopArgs ==
    [file |-> TRUE, exists |-> TRUE, suffix |-> ".wav", mode |-> "local",
     api_key |-> FALSE, device_mode |-> "compatibility", translate |-> FALSE,
     size |-> MAX_CLOUD_BYTES]

LoopInit ==
    /\ args = LoopArgs
    /\ pc = "stream"
    /\ msgs = <<StartProgress, Progress(30, "transcribing"),
                Progress(40, "transcribing")>>
    /\ exitCode = -1
    /\ exc = "none"
    /\ tempFile = FALSE
    /\ popenCalls = 0
    /\ device = DeviceFor(LoopArgs.device_mode).device
    /\ compute_type = DeviceFor(LoopArgs.device_mode).compute_type
    /\ attempts = <<DeviceFor(LoopArgs.device_mode)>>
    /\ \E duration \in 0..LoopMaxDuration :
         total_duration = TotalDuration(duration)
    /\ segment_count = 0
    /\ spans = <<>>
    /\ ret = [len |-> 0, text |-> FALSE]
    /\ fileOpened = FALSE
    /\ apiCalls = <<>>

\* Lines 597-632: one iteration of the loop over segments_gen.
LoopSpan ==
    /\ pc = "stream"
    /\ segment_count < LoopMaxSpans
    /\ \E end \in 0..LoopMaxEnd :
         /\ msgs' = msgs \o <<Segment(SegmentId(segment_count)),
                              Progress(SpanProgress(end, total_duration),
                                       "transcribing")>>
         /\ spans' = Append(spans, end)
    /\ segment_count' = segment_count + 1
    /\ UNCHANGED <<args, pc, exitCode, exc, tempFile, popenCalls, device,
                   compute_type, attempts, total_duration, ret, fileOpened,
                   apiCalls>>

LoopNext ==
    \/ LoopSpan
    \/ StreamFail
    \/ StreamEnd
    \/ AfterTranscribe
    \/ Finally

LoopSpec == LoopInit /\ [][LoopNext]_vars

\* min(95, 40 + floor(55 * end / total)) in exact arithmetic.
ExactPercent(end, total) ==
    IF 40 + ((55 * end) \div total) < 95 THEN 40 + ((55 * end) \div total)
                                         ELSE 95

\* The k-th span yielded produced the segment line 2k+2 and the progress
\* line 2k+3 of the session (three progress lines precede the loop).
SpanLinesPaired ==
    /\ Len(OfType("segment")) = Len(spans)
    /\ \A k \in DOMAIN spans :
         /\ msgs[2 * k + 2].type = "segment"
         /\ msgs[2 * k + 3].type = "progress"

\* C22: each span yielded produces one segment message directly followed by
\* one progress message whose percent equals
\* min(95, 40 + floor(55 * end / total_duration)), with total_duration at
\* least 1, and so lies in 40..95.
C22_ExactPercent ==
    /\ total_duration >= 1
    /\ SpanLinesPaired
    /\ \A k \in DOMAIN spans :
         /\ msgs[2 * k + 3].progress = ExactPercent(spans[k], total_duration)
         /\ msgs[2 * k + 3].progress \in 40..95

\* How far the percent of line 609 strays from the exact formula: each span
\* yielded produces one segment message directly followed by one progress
\* message whose percent lies in 40..95 and equals
\* min(95, 40 + floor(55 * end / total_duration)) or, only when
\* 55 * end / total_duration is a whole number, one less than that.
PercentWithinOne ==
    /\ total_duration >= 1
    /\ SpanLinesPaired
    /\ \A k \in DOMAIN spans :
         LET percent == msgs[2 * k + 3].progress
             exact   == ExactPercent(spans[k], total_duration)
         IN  /\ percent \in 40..95
             /\ percent \in {exact, exact - 1}
             /\ percent # exact => (55 * spans[k]) % total_duration = 0

\* A span ending at 3 s of 11 s has been reported with percent 54.
SpanReportedBelow ==
    /\ total_duration = 11
    /\ Len(spans) = 2
    /\ spans[1] = 3
    /\ msgs[4].type = "segment"
    /\ msgs[5] = Progress(54, "transcribing")
    /\ pc = "done"

\* The transcoding tool was started and did not report a finished extraction.
ExtractionFailed == popenCalls = 1 /\ ~HasProgress(25)

\* The remote endpoint was called and the call did not come back with a
\* usable answer.
RemoteCallFailed == Len(apiCalls) = 1 /\ ~HasProgress(95)

\* C23: per session the transcoding tool is started at most once and a remote
\* endpoint is called at most once; after a failure of either the session
\* ends with an error (status 1, the error being the last message) and there
\* is no second attempt, no engine initialisation, no segment and no result.
C23_SingleAttemptNoRetry ==
    /\ popenCalls <= 1
    /\ Len(apiCalls) <= 1
    /\ ExtractionFailed =>
           /\ pc = "done"
           /\ exitCode = 1
           /\ Last(msgs).type = "error"
           /\ attempts = <<>>
           /\ device = "unset"
           /\ apiCalls = <<>>
           /\ ~fileOpened
           /\ ~HasType("segment")
           /\ ~HasType("result")
    /\ RemoteCallFailed =>
           /\ pc \in {"finally", "done"}
           /\ pc = "done" => exitCode = 1
           /\ Last(msgs).type = "error"
           /\ Len(OfType("error")) = 1
           /\ attempts = <<>>
           /\ device = "unset"
           /\ ~HasType("segment")
           /\ ~HasType("result")

\* A remote session on a video: the tool ran once and succeeded, the one
\* call of the endpoint failed and the session ended with the error.
C23_Witness ==
    /\ pc = "done"
    /\ args.mode = "cloud"
    /\ IsVideo(args)
    /\ popenCalls = 1
    /\ HasProgress(25)
    /\ RemoteCallFailed
    /\ Last(msgs).type = "error"
    /\ exitCode = 1

\* A session on a video whose extraction failed and ended with the error.
ExtractionFailureEnded ==
    /\ pc = "done"
    /\ ExtractionFailed
    /\ Last(msgs).type = "error"
    /\ exitCode = 1

\* The file is missing, or its lower-cased extension is in neither set.
MissingOrUnsupported ==
    /\ args.file
    /\ ~args.exists \/ Lower(args.suffix) \notin ALL_FORMATS

\* C24: when the input file does not exist, or exists with an extension in
\* neither the audio nor the video set, the invocation prints exactly one
\* message, an error (the missing-file error when the file does not exist,
\* the unsupported-format error otherwise, once a mode is given), and has
\* no side effect: no progress, no transcoding process, no temporary file,
\* no engine initialisation, no remote call.
C24_RejectedWithoutSideEffects ==
    MissingOrUnsupported =>
        /\ Len(msgs) <= 1
        /\ \A i \in DOMAIN msgs : msgs[i].type = "error"
        /\ pc \in {"validate", "done"}
        /\ pc = "done" =>
               /\ Len(msgs) = 1
               /\ exitCode = 1
               /\ args.mode # "none" =>
                      msgs[1] = Error(IF ~args.exists THEN "file_missing"
                                                      ELSE "bad_format")
        /\ popenCalls = 0
        /\ ~tempFile
        /\ attempts = <<>>
        /\ device = "unset"
        /\ ~fileOpened
        /\ apiCalls = <<>>

\* A missing file with an unsupported extension was rejected as missing.
C24_Witness ==
    /\ pc = "done"
    /\ args.file
    /\ args.mode # "none"
    /\ ~args.exists
    /\ Lower(args.suffix) \notin ALL_FORMATS
    /\ msgs = <<Error("file_missing")>>
    /\ exitCode = 1

(***************************************************************************)
(* download_model(), lines 337-402, entered from main lines 765-768.  A    *)
(* specification of its own: args is the model name given on the command   *)
(* line, exc the exception in flight, and the variables of the             *)
(* transcription session keep their initial values.                        *)
(***************************************************************************)
\* The names of WHISPER_MODELS (lines 91-99) and one name outside of it.
ModelNames ==
    {"tiny", "base", "small", "medium", "large-v2", "large-v3",
     "large-v3-turbo", "no-such-model"}

\* Lines 343-360: the repository of a model name.
RepoId(model_name) ==
    IF model_name = "large-v3-turbo"
    THEN <<"openai", "whisper-large-v3-turbo">>
    ELSE <<"Systran", "faster-whisper-", model_name>>

\* Lines 248-256.
DownloadProgress(model, p, message) ==
    [type |-> "download_progress", model |-> model, progress |-> p,
     message |-> message]

\* Lines 388-394.
DownloadComplete(model, path) ==
    [type |-> "download_complete", model |-> model, success |-> TRUE,
     path |-> path]

DownloadInit ==
    /\ args \in [download_model : ModelNames]
    /\ pc = "dl_start"
    /\ msgs = <<>>
    /\ exitCode = -1
    /\ exc = "none"
    /\ tempFile = FALSE
    /\ popenCalls = 0
    /\ device = "unset"
    /\ compute_type = "unset"
    /\ attempts = <<>>
    /\ total_duration = 0
    /\ segment_count = 0
    /\ spans = <<>>
    /\ ret = [len |-> 0, text |-> FALSE]
    /\ fileOpened = FALSE
    /\ apiCalls = <<>>

DownloadFrame ==
    UNCHANGED <<args, tempFile, popenCalls, device, compute_type, attempts,
                total_duration, segment_count, spans, ret, fileOpened,
                apiCalls>>

\* Line 339.
DownloadStart ==
    /\ pc = "dl_start"
    /\ msgs' = Append(msgs, DownloadProgress(args.download_model, 0,
                                             "preparing"))
    /\ pc' = "dl_import"
    /\ UNCHANGED <<exitCode, exc>>
    /\ DownloadFrame

\* Lines 349-353: the import of huggingface_hub.  On ImportError send_error
\* prints and raises SystemExit inside the outer try; any other exception of
\* the import goes to the outer handler.
ImportOutcomes == {"ok", "ImportError", "Exception"}

DownloadImport ==
    /\ pc = "dl_import"
    /\ \E out \in ImportOutcomes :
         CASE out = "ok" ->
                /\ pc' = "dl_connect"
                /\ UNCHANGED <<msgs, exc>>
           [] out = "ImportError" ->
                /\ msgs' = Append(msgs, Error("hub_missing"))
                /\ exc' = "SystemExit"
                /\ pc' = "dl_outer"
           [] out = "Exception" ->
                /\ exc' = "Exception"
                /\ pc' = "dl_outer"
                /\ UNCHANGED msgs
    /\ UNCHANGED exitCode
    /\ DownloadFrame

\* Lines 355-363: the repository is chosen and announced.
DownloadConnect ==
    /\ pc = "dl_connect"
    /\ msgs' = Append(msgs, DownloadProgress(args.download_model, 5,
                                             RepoId(args.download_model)))
    /\ pc' = "dl_download"
    /\ UNCHANGED <<exitCode, exc>>
    /\ DownloadFrame

\* Lines 365-374: progress 10, then snapshot_download returns the local
\* directory or raises (an HTTP error of the hub, any other exception, or an
\* interrupt of the transfer).
SnapshotOutcomes == {"ok", "HfHubHTTPError", "Exception", "KeyboardInterrupt"}

DownloadSnapshot ==
    /\ pc = "dl_download"
    /\ \E out \in SnapshotOutcomes :
         LET started == Append(msgs, DownloadProgress(args.download_model, 10,
                                                      "downloading"))
         IN  IF out = "ok"
             THEN /\ msgs' = Append(started,
                                    DownloadProgress(args.download_model, 80,
                                                     "downloaded"))
                  /\ pc' = "dl_verify"
                  /\ UNCHANGED exc
             ELSE /\ msgs' = started
                  /\ exc' = out
                  /\ pc' = "dl_except"
    /\ UNCHANGED exitCode
    /\ DownloadFrame

\* A verification whose failure is treated as a failed download.
AfterVerify_Strict(verified) == IF verified THEN "dl_complete" ELSE "dl_except"

\* Lines 379-386: both the try body and its "except Exception" handler fall
\* through to the download_complete lines.
AfterVerify(verified) == "dl_complete"

\* Lines 376-386: progress 90, the load test of the model (import of
\* faster_whisper and one WhisperModel call), then progress 100 either way.
DownloadVerify ==
    /\ pc = "dl_verify"
    /\ \E verified \in BOOLEAN :
         /\ msgs' = msgs \o
                <<DownloadProgress(args.download_model, 90, "verifying"),
                  DownloadProgress(args.download_model, 100,
                                   IF verified THEN "ready"
                                               ELSE "verification_skipped")>>
         /\ pc' = AfterVerify(verified)
    /\ UNCHANGED <<exitCode, exc>>
    /\ DownloadFrame

\* Lines 388-394, then the return of main line 768.
DownloadFinish ==
    /\ pc = "dl_complete"
    /\ msgs' = Append(msgs, DownloadComplete(args.download_model, "local_dir"))
    /\ exitCode' = ExitStatus(exc)
    /\ pc' = "done"
    /\ UNCHANGED exc
    /\ DownloadFrame

\* Lines 396-399: an exception leaves the inner try.  The first clause names
\* HfHubHTTPError, which the module never imports or defines: evaluating it
\* raises NameError in place of the exception in flight, whatever that was.
DownloadExcept ==
    /\ pc = "dl_except"
    /\ exc' = "NameError"
    /\ pc' = "dl_outer"
    /\ UNCHANGED <<msgs, exitCode>>
    /\ DownloadFrame

\* Lines 401-402: the outer "except Exception" prints the unexpected-error
\* message, whose send_error exits; a SystemExit in flight passes it.
DownloadOuter ==
    /\ pc = "dl_outer"
    /\ IF ExceptExceptionCatches(exc)
       THEN /\ msgs' = Append(msgs, Error("unexpected"))
            /\ exc' = "SystemExit"
       ELSE UNCHANGED <<msgs, exc>>
    /\ exitCode' = ExitStatus(exc')
    /\ pc' = "done"
    /\ DownloadFrame

DownloadNext ==
    \/ DownloadStart
    \/ DownloadImport
    \/ DownloadConnect
    \/ DownloadSnapshot
    \/ DownloadVerify
    \/ DownloadFinish
    \/ DownloadExcept
    \/ DownloadOuter

DownloadSpec == DownloadInit /\ [][DownloadNext]_vars

HasDownloadProgress(p) ==
    \E i \in DOMAIN msgs :
        msgs[i].type = "download_progress" /\ msgs[i].progress = p

\* The repository download was started and did not come back.
RepositoryDownloadFailed ==
    HasDownloadProgress(10) /\ ~HasDownloadProgress(80)

\* C25: a download_model invocation ends with exactly one of
\* download_complete or error, never both; a failed repository download
\* gives exactly one error, status 1 and no download_complete; a successful
\* download gives download_complete (and no error) even when the load
\* verification fails; the download_progress percents never decrease.
C25_DownloadOutcome ==
    /\ Len(OfType("download_complete")) + Len(OfType("error")) <= 1
    /\ pc = "done" =>
           /\ Len(OfType("download_complete")) + Len(OfType("error")) = 1
           /\ Last(msgs).type \in {"download_complete", "error"}
           /\ HasType("error") => exitCode = 1
    /\ (pc = "done" /\ RepositoryDownloadFailed) =>
           /\ Len(OfType("error")) = 1
           /\ exitCode = 1
           /\ ~HasType("download_complete")
    /\ (pc = "done" /\ HasDownloadProgress(80)) =>
           /\ Len(OfType("download_complete")) = 1
           /\ ~HasType("error")
           /\ HasDownloadProgress(100)
    /\ HasDownloadProgress(80) => pc \in {"dl_verify", "dl_complete", "done"}
    /\ \A i, j \in DOMAIN msgs :
           (/\ i < j
            /\ msgs[i].type = "download_progress"
            /\ msgs[j].type = "download_progress")
               => msgs[i].progress <= msgs[j].progress

\* The download succeeded, the load verification failed and the invocation
\* ended with download_complete.
C25_Witness ==
    /\ pc = "done"
    /\ \E i \in DOMAIN msgs :
           /\ msgs[i].type = "download_progress"
           /\ msgs[i].progress = 100
           /\ msgs[i].message = "verification_skipped"
    /\ Last(msgs).type = "download_complete"
    /\ ~HasType("error")
    /\ exitCode = 0

\* The repository download failed and the invocation ended with one error.
DownloadFailureEnded ==
    /\ pc = "done"
    /\ RepositoryDownloadFailed
    /\ Last(msgs).type = "error"
    /\ Len(OfType("error")) = 1
    /\ exitCode = 1

====
